---- MODULE Spec2Model ----
(***************************************************************************)
(* Model of tab58/spatial: the float64 vector / matrix primitives of       *)
(* pkg/geometry and the frame hierarchy of pkg/kinematics.                 *)
(*                                                                         *)
(* float64 values are modelled on an integer grid: a finite value is an    *)
(* integer of magnitude at most MaxFloat, and +Inf, -Inf and NaN are three *)
(* values outside that range.  Every arithmetic operator below follows the *)
(* IEEE-754 rules of the Go operator it stands for: a result beyond        *)
(* MaxFloat overflows to an infinity, Inf-Inf, 0*Inf, 0/0 and Inf/Inf are  *)
(* NaN, NaN propagates, and every ordered comparison with NaN is false.    *)
(* Division and square root round to the nearest grid value.               *)
(***************************************************************************)
EXTENDS Integers, Sequences, FiniteSets, TLC

VARIABLES dim, vec, vecPre, vecOp, vecArg, vecErr,
          mat, matPre, matArg, matOp, matErr, matPrevOp,
          matAlias, matArgPost, matRet,
          frames, csOp, csFrame, csRet, csErr, csVisited,
          predOp, predArg, predTol, predRet, predErr,
          xfOp, xfAxis, xfAngle, xfPre, xfRet, xfErr,
          steps

vars == <<dim, vec, vecPre, vecOp, vecArg, vecErr,
          mat, matPre, matArg, matOp, matErr, matPrevOp,
          matAlias, matArgPost, matRet,
          frames, csOp, csFrame, csRet, csErr, csVisited,
          predOp, predArg, predTol, predRet, predErr,
          xfOp, xfAxis, xfAngle, xfPre, xfRet, xfErr,
          steps>>

vecVars == <<vec, vecPre, vecOp, vecArg, vecErr>>
\* the receiver and the last call on it; matAlias: the argument of the call
\* was the receiver itself; matArgPost: the elements of the argument after
\* the call; matRet: the value an accessor returned
matVars == <<mat, matPre, matArg, matOp, matErr, matPrevOp,
             matAlias, matArgPost, matRet>>
csVars == <<frames, csOp, csFrame, csRet, csErr, csVisited>>
\* the last predicate call: its name, argument, tolerance and results
predVars == <<predOp, predArg, predTol, predRet, predErr>>
\* the last transform builder call on mat: its name, axis or translation,
\* angle, the elements before the call, the matrix returned and the error
xfVars == <<xfOp, xfAxis, xfAngle, xfPre, xfRet, xfErr>>

(***************************************************************************)
(* Bounds of the model.                                                    *)
(***************************************************************************)
\* largest finite magnitude of the grid (stands for math.MaxFloat64)
MaxFloat == 60
\* number of calls made on an object in one behaviour
MaxSteps == 2
\* number of frames in a parent chain
MaxFrames == 3

(***************************************************************************)
(* float64                                                                 *)
(***************************************************************************)
PInf == MaxFloat + 1
NInf == 0 - (MaxFloat + 1)
NaN == MaxFloat + 2

Finite == (0 - MaxFloat)..MaxFloat
Float == Finite \cup {PInf, NInf, NaN}

IsNaN(x) == x = NaN
IsInf(x) == x = PInf \/ x = NInf

\* the rounding of an exact finite result: overflow to an infinity
Round(n) == IF n > MaxFloat THEN PInf ELSE IF n < 0 - MaxFloat THEN NInf ELSE n

Sign(x) == IF x > 0 THEN 1 ELSE IF x < 0 THEN 0 - 1 ELSE 0

FNeg(x) == IF IsNaN(x) THEN NaN ELSE 0 - x

FAbs(x) == IF IsNaN(x) THEN NaN ELSE IF x < 0 THEN 0 - x ELSE x

FAdd(a, b) ==
    IF IsNaN(a) \/ IsNaN(b) THEN NaN
    ELSE IF IsInf(a) /\ IsInf(b) THEN (IF a = b THEN a ELSE NaN)
    ELSE IF IsInf(a) THEN a
    ELSE IF IsInf(b) THEN b
    ELSE Round(a + b)

FSub(a, b) == FAdd(a, FNeg(b))

FMul(a, b) ==
    IF IsNaN(a) \/ IsNaN(b) THEN NaN
    ELSE IF IsInf(a) \/ IsInf(b)
         THEN (IF a = 0 \/ b = 0 THEN NaN
               ELSE IF Sign(a) = Sign(b) THEN PInf ELSE NInf)
    ELSE Round(a * b)

\* nearest integer to p/q for q > 0, p >= 0, halves away from zero
NearestQuotient(p, q) == (2 * p + q) \div (2 * q)

FDiv(a, b) ==
    IF IsNaN(a) \/ IsNaN(b) THEN NaN
    ELSE IF IsInf(a) /\ IsInf(b) THEN NaN
    ELSE IF IsInf(a) THEN (IF Sign(a) * Sign(b) < 0 THEN NInf ELSE PInf)
    ELSE IF IsInf(b) THEN 0
    ELSE IF b = 0 THEN (IF a = 0 THEN NaN ELSE IF a > 0 THEN PInf ELSE NInf)
    ELSE Sign(a) * Sign(b) * NearestQuotient(FAbs(a), FAbs(b))

\* nearest integer to the square root of n >= 0
NearestRoot(n) == CHOOSE r \in 0..(n + 1) : (r = 0 \/ 4 * n >= (2 * r - 1) * (2 * r - 1))
                                           /\ 4 * n < (2 * r + 1) * (2 * r + 1)

FSqrt(x) ==
    IF IsNaN(x) \/ x < 0 THEN NaN
    ELSE IF x = PInf THEN PInf
    ELSE NearestRoot(x)

\* math.Max and math.Min: an infinity of the right sign wins over NaN
FMax(a, b) ==
    IF a = PInf \/ b = PInf THEN PInf
    ELSE IF IsNaN(a) \/ IsNaN(b) THEN NaN
    ELSE IF a >= b THEN a ELSE b

FMin(a, b) ==
    IF a = NInf \/ b = NInf THEN NInf
    ELSE IF IsNaN(a) \/ IsNaN(b) THEN NaN
    ELSE IF a <= b THEN a ELSE b

FEq(a, b) == ~IsNaN(a) /\ ~IsNaN(b) /\ a = b
FLt(a, b) == ~IsNaN(a) /\ ~IsNaN(b) /\ a < b
FLe(a, b) == ~IsNaN(a) /\ ~IsNaN(b) /\ a <= b

\* x < 1e-13 and x <= 1e-12 for a value x of the grid: both thresholds lie
\* strictly between 0 and the smallest positive grid value
Lt1e13(x) == ~IsNaN(x) /\ x < 1
Le1e12(x) == ~IsNaN(x) /\ x <= 0

(***************************************************************************)
(* errors                                                                  *)
(***************************************************************************)
Nil == "nil"
ErrOverflow == "ErrOverflow"
ErrNaN == "ErrNaN"
ErrDivideByZero == "ErrDivideByZero"
ErrInvalidArgument == "ErrInvalidArgument"
ErrInvalidTol == "ErrInvalidTol"
ErrSingularMatrix == "ErrSingularMatrix"
ErrMatrixOutOfRange == "ErrMatrixOutOfRange"
ErrVectorZeroLength == "ErrVectorZeroLength"
ErrInfinity == "ErrInfinity"
\* a run-time panic of the call, which returns nothing
Panic == "panic"

(***************************************************************************)
(* Numeric guard                                                           *)
(***************************************************************************)
IsOverflow(num) == IsInf(num)

AreAnyOverflow(nums) == \E i \in DOMAIN nums : IsOverflow(nums[i])

IsInvalidTolerance(tol) == FLt(tol, 0)

Nrm2(a, b) ==
    IF FEq(a, 0) /\ FEq(b, 0) THEN 0
    ELSE LET x == FAbs(a)
             y == FAbs(b)
             u == FMax(x, y)
             t == FDiv(FMin(x, y), u)
         IN FMul(u, FSqrt(FAdd(1, FMul(t, t))))

(***************************************************************************)
(* Matrices: row-major element sequences; At(a, k) is the Go a[k]          *)
(***************************************************************************)
At(a, k) == a[k + 1]

\* the elements Identity() sets: 1 on the diagonal of the d x d matrix
Identity(d) == [k \in 1..(d * d) |-> IF (k - 1) \div d = (k - 1) % d THEN 1 ELSE 0]

Matrix2DDeterminant(a) == FSub(FMul(At(a, 0), At(a, 3)), FMul(At(a, 2), At(a, 1)))

Matrix3DDeterminant(a) ==
    LET a00 == At(a, 0)  a01 == At(a, 1)  a02 == At(a, 2)
        a10 == At(a, 3)  a11 == At(a, 4)  a12 == At(a, 5)
        a20 == At(a, 6)  a21 == At(a, 7)  a22 == At(a, 8)
    IN FAdd(FAdd(FMul(a00, FSub(FMul(a22, a11), FMul(a12, a21))),
                 FMul(a01, FAdd(FMul(FNeg(a22), a10), FMul(a12, a20)))),
            FMul(a02, FSub(FMul(a21, a10), FMul(a11, a20))))

Matrix4DDeterminant(a) ==
    LET a00 == At(a, 0)   a01 == At(a, 1)   a02 == At(a, 2)   a03 == At(a, 3)
        a10 == At(a, 4)   a11 == At(a, 5)   a12 == At(a, 6)   a13 == At(a, 7)
        a20 == At(a, 8)   a21 == At(a, 9)   a22 == At(a, 10)  a23 == At(a, 11)
        a30 == At(a, 12)  a31 == At(a, 13)  a32 == At(a, 14)  a33 == At(a, 15)
        b0 == FSub(FMul(a00, a11), FMul(a01, a10))
        b1 == FSub(FMul(a00, a12), FMul(a02, a10))
        b2 == FSub(FMul(a01, a12), FMul(a02, a11))
        b3 == FSub(FMul(a20, a31), FMul(a21, a30))
        b4 == FSub(FMul(a20, a32), FMul(a22, a30))
        b5 == FSub(FMul(a21, a32), FMul(a22, a31))
        b6 == FAdd(FSub(FMul(a00, b5), FMul(a01, b4)), FMul(a02, b3))
        b7 == FAdd(FSub(FMul(a10, b5), FMul(a11, b4)), FMul(a12, b3))
        b8 == FAdd(FSub(FMul(a20, b2), FMul(a21, b1)), FMul(a22, b0))
        b9 == FAdd(FSub(FMul(a30, b2), FMul(a31, b1)), FMul(a32, b0))
    IN FSub(FAdd(FSub(FMul(a13, b6), FMul(a03, b7)), FMul(a33, b8)), FMul(a23, b9))

\* Determinant of the matrix type that holds the elements a
Determinant(a) ==
    IF Len(a) = 4 THEN Matrix2DDeterminant(a)
    ELSE IF Len(a) = 9 THEN Matrix3DDeterminant(a)
    ELSE Matrix4DDeterminant(a)

IsSingular(a) == FEq(Determinant(a), 0)

\* IsNearSingular(1e-12), the call every MatrixTransform makes: the
\* tolerance is valid, so the error is always nil
IsNearSingular1e12(a) == Le1e12(FAbs(Determinant(a)))

(***************************************************************************)
(* Matrix mutators.  Each returns the elements the receiver holds after    *)
(* the call and the error returned.  SetElements, Scale, Add and Sub are   *)
(* the same code in the three dimensions.                                  *)
(***************************************************************************)
MatrixSetElements(m, e) ==
    IF AreAnyOverflow(e) THEN [m |-> m, err |-> ErrOverflow]
    ELSE [m |-> e, err |-> Nil]

MatrixScale(m, z) ==
    LET out == [k \in 1..Len(m) |-> FMul(m[k], z)]
    IN IF \E k \in 1..Len(m) : IsOverflow(out[k]) THEN [m |-> m, err |-> ErrOverflow]
       ELSE [m |-> out, err |-> Nil]

\* Add that assigns the elements before it tests them for overflow
MatrixAddStoreFirst(m, mat2) ==
    LET tmp == [k \in 1..Len(m) |-> FAdd(m[k], mat2[k])]
    IN IF AreAnyOverflow(tmp) THEN [m |-> tmp, err |-> ErrOverflow]
       ELSE [m |-> tmp, err |-> Nil]

MatrixAdd(m, mat2) ==
    LET tmp == [k \in 1..Len(m) |-> FAdd(m[k], mat2[k])]
    IN IF AreAnyOverflow(tmp) THEN [m |-> m, err |-> ErrOverflow]
       ELSE [m |-> tmp, err |-> Nil]

MatrixSub(m, mat2) ==
    LET tmp == [k \in 1..Len(m) |-> FSub(m[k], mat2[k])]
    IN IF AreAnyOverflow(tmp) THEN [m |-> m, err |-> ErrOverflow]
       ELSE [m |-> tmp, err |-> Nil]

multiply2DMatrices(a, b) ==
    LET a0 == At(a, 0)  a1 == At(a, 1)  a2 == At(a, 2)  a3 == At(a, 3)
        b0 == At(b, 0)  b1 == At(b, 1)  b2 == At(b, 2)  b3 == At(b, 3)
        out == <<FAdd(FMul(a0, b0), FMul(a2, b1)),
                 FAdd(FMul(a1, b0), FMul(a3, b1)),
                 FAdd(FMul(a0, b2), FMul(a2, b3)),
                 FAdd(FMul(a1, b2), FMul(a3, b3))>>
    IN [val |-> out, err |-> Nil]

multiply3DMatrices(a, b) ==
    LET a00 == At(a, 0)  a01 == At(a, 1)  a02 == At(a, 2)
        a10 == At(a, 3)  a11 == At(a, 4)  a12 == At(a, 5)
        a20 == At(a, 6)  a21 == At(a, 7)  a22 == At(a, 8)
        b00 == At(b, 0)  b01 == At(b, 1)  b02 == At(b, 2)
        b10 == At(b, 3)  b11 == At(b, 4)  b12 == At(b, 5)
        b20 == At(b, 6)  b21 == At(b, 7)  b22 == At(b, 8)
        out == <<FAdd(FAdd(FMul(b00, a00), FMul(b01, a10)), FMul(b02, a20)),
                 FAdd(FAdd(FMul(b00, a01), FMul(b01, a11)), FMul(b02, a21)),
                 FAdd(FAdd(FMul(b00, a02), FMul(b01, a12)), FMul(b02, a22)),
                 FAdd(FAdd(FMul(b10, a00), FMul(b11, a10)), FMul(b12, a20)),
                 FAdd(FAdd(FMul(b10, a01), FMul(b11, a11)), FMul(b12, a21)),
                 FAdd(FAdd(FMul(b10, a02), FMul(b11, a12)), FMul(b12, a22)),
                 FAdd(FAdd(FMul(b20, a00), FMul(b21, a10)), FMul(b22, a20)),
                 FAdd(FAdd(FMul(b20, a01), FMul(b21, a11)), FMul(b22, a21)),
                 FAdd(FAdd(FMul(b20, a02), FMul(b21, a12)), FMul(b22, a22))>>
    IN IF AreAnyOverflow(out) THEN [val |-> <<>>, err |-> ErrOverflow]
       ELSE [val |-> out, err |-> Nil]

multiply4DMatrices(a, b) ==
    LET a00 == At(a, 0)  a01 == At(a, 1)  a02 == At(a, 2)  a03 == At(a, 3)
        a10 == At(a, 4)  a11 == At(a, 5)  a12 == At(a, 6)  a13 == At(a, 7)
        a20 == At(a, 8)  a21 == At(a, 9)  a22 == At(a, 10)  a23 == At(a, 11)
        a30 == At(a, 12)  a31 == At(a, 13)  a32 == At(a, 14)  a33 == At(a, 15)
        b00 == At(b, 0)  b01 == At(b, 1)  b02 == At(b, 2)  b03 == At(b, 3)
        b10 == At(b, 4)  b11 == At(b, 5)  b12 == At(b, 6)  b13 == At(b, 7)
        b20 == At(b, 8)  b21 == At(b, 9)  b22 == At(b, 10)  b23 == At(b, 11)
        b30 == At(b, 12)  b31 == At(b, 13)  b32 == At(b, 14)  b33 == At(b, 15)
        out == <<FAdd(FAdd(FAdd(FMul(b00, a00), FMul(b01, a10)), FMul(b02, a20)), FMul(b03, a30)),
                 FAdd(FAdd(FAdd(FMul(b00, a01), FMul(b01, a11)), FMul(b02, a21)), FMul(b03, a31)),
                 FAdd(FAdd(FAdd(FMul(b00, a02), FMul(b01, a12)), FMul(b02, a22)), FMul(b03, a32)),
                 FAdd(FAdd(FAdd(FMul(b00, a03), FMul(b01, a13)), FMul(b02, a23)), FMul(b03, a33)),
                 FAdd(FAdd(FAdd(FMul(b10, a00), FMul(b11, a10)), FMul(b12, a20)), FMul(b13, a30)),
                 FAdd(FAdd(FAdd(FMul(b10, a01), FMul(b11, a11)), FMul(b12, a21)), FMul(b13, a31)),
                 FAdd(FAdd(FAdd(FMul(b10, a02), FMul(b11, a12)), FMul(b12, a22)), FMul(b13, a32)),
                 FAdd(FAdd(FAdd(FMul(b10, a03), FMul(b11, a13)), FMul(b12, a23)), FMul(b13, a33)),
                 FAdd(FAdd(FAdd(FMul(b20, a00), FMul(b21, a10)), FMul(b22, a20)), FMul(b23, a30)),
                 FAdd(FAdd(FAdd(FMul(b20, a01), FMul(b21, a11)), FMul(b22, a21)), FMul(b23, a31)),
                 FAdd(FAdd(FAdd(FMul(b20, a02), FMul(b21, a12)), FMul(b22, a22)), FMul(b23, a32)),
                 FAdd(FAdd(FAdd(FMul(b20, a03), FMul(b21, a13)), FMul(b22, a23)), FMul(b23, a33)),
                 FAdd(FAdd(FAdd(FMul(b30, a00), FMul(b31, a10)), FMul(b32, a20)), FMul(b33, a30)),
                 FAdd(FAdd(FAdd(FMul(b30, a01), FMul(b31, a11)), FMul(b32, a21)), FMul(b33, a31)),
                 FAdd(FAdd(FAdd(FMul(b30, a02), FMul(b31, a12)), FMul(b32, a22)), FMul(b33, a32)),
                 FAdd(FAdd(FAdd(FMul(b30, a03), FMul(b31, a13)), FMul(b32, a23)), FMul(b33, a33))>>
    IN [val |-> out, err |-> Nil]

\* row i of m times column j of m, n terms
RECURSIVE InPlaceDot(_, _, _, _, _)
InPlaceDot(m, d, i, j, n) ==
    IF n = 0 THEN 0
    ELSE FAdd(InPlaceDot(m, d, i, j, n - 1),
              FMul(At(m, i * d + n - 1), At(m, (n - 1) * d + j)))

\* the multiply function of the matrix type that holds a and b
multiplyMatrices(a, b) ==
    IF Len(a) = 4 THEN multiply2DMatrices(a, b)
    ELSE IF Len(a) = 9 THEN multiply3DMatrices(a, b)
    ELSE multiply4DMatrices(a, b)

\* the product of m with itself computed in place from element k on
RECURSIVE SquareInPlace(_, _, _)
SquareInPlace(m, k, d) ==
    IF k = d * d THEN m
    ELSE SquareInPlace([m EXCEPT ![k + 1] = InPlaceDot(m, d, k \div d, k % d, d)],
                       k + 1, d)

\* ElementAt and SetElementAt: the index test, then the element i*cols+j of
\* the array; an index outside the array is a run-time panic
MatrixElementAt(m, d, i, j) ==
    IF i <= d \/ j <= d THEN [m |-> m, val |-> 0, err |-> ErrMatrixOutOfRange]
    ELSE IF i * d + j < d * d THEN [m |-> m, val |-> At(m, i * d + j), err |-> Nil]
    ELSE [m |-> m, val |-> <<>>, err |-> Panic]

MatrixSetElementAt(m, d, i, j, value) ==
    IF i <= d \/ j <= d THEN [m |-> m, val |-> <<>>, err |-> ErrMatrixOutOfRange]
    ELSE IF i * d + j < d * d
    THEN [m |-> [m EXCEPT ![i * d + j + 1] = value], val |-> <<>>, err |-> Nil]
    ELSE [m |-> m, val |-> <<>>, err |-> Panic]

MatrixPremultiply(m, mat2) ==
    LET res == multiplyMatrices(mat2, m)
    IN IF res.err # Nil THEN [m |-> m, err |-> res.err]
       ELSE [m |-> res.val, err |-> Nil]

MatrixPostmultiply(m, mat2) ==
    LET res == multiplyMatrices(m, mat2)
    IN IF res.err # Nil THEN [m |-> m, err |-> res.err]
       ELSE [m |-> res.val, err |-> Nil]

Matrix2DInvert(a) ==
    LET a0 == At(a, 0)  a1 == At(a, 1)  a2 == At(a, 2)  a3 == At(a, 3)
        det == FSub(FMul(a0, a3), FMul(a2, a1))
        rdet == FDiv(1, det)
        out == <<FMul(a3, rdet), FMul(FNeg(a1), rdet),
                 FMul(FNeg(a2), rdet), FMul(a0, rdet)>>
    IN IF Lt1e13(FAbs(det)) THEN [m |-> a, err |-> ErrSingularMatrix]
       ELSE [m |-> out, err |-> Nil]

Matrix3DInvert(a) ==
    LET a00 == At(a, 0)  a01 == At(a, 1)  a02 == At(a, 2)
        a10 == At(a, 3)  a11 == At(a, 4)  a12 == At(a, 5)
        a20 == At(a, 6)  a21 == At(a, 7)  a22 == At(a, 8)
        b01 == FSub(FMul(a22, a11), FMul(a12, a21))
        b11 == FAdd(FMul(FNeg(a22), a10), FMul(a12, a20))
        b21 == FSub(FMul(a21, a10), FMul(a11, a20))
        det == FAdd(FAdd(FMul(a00, b01), FMul(a01, b11)), FMul(a02, b21))
        rdet == FDiv(1, det)
        out == <<FMul(b01, rdet),
                 FMul(FAdd(FMul(FNeg(a22), a01), FMul(a02, a21)), rdet),
                 FMul(FSub(FMul(a12, a01), FMul(a02, a11)), rdet),
                 FMul(b11, rdet),
                 FMul(FSub(FMul(a22, a00), FMul(a02, a20)), rdet),
                 FMul(FAdd(FMul(FNeg(a12), a00), FMul(a02, a10)), rdet),
                 FMul(b21, rdet),
                 FMul(FAdd(FMul(FNeg(a21), a00), FMul(a01, a20)), rdet),
                 FMul(FSub(FMul(a11, a00), FMul(a01, a10)), rdet)>>
    IN IF Lt1e13(FAbs(det)) THEN [m |-> a, err |-> ErrSingularMatrix]
       ELSE [m |-> out, err |-> Nil]

\* the inverse is computed into out, and the receiver is assigned a, the
\* elements it already holds
Matrix4DInvert(a) ==
    LET a00 == At(a, 0)  a01 == At(a, 1)  a02 == At(a, 2)  a03 == At(a, 3)
        a10 == At(a, 4)  a11 == At(a, 5)  a12 == At(a, 6)  a13 == At(a, 7)
        a20 == At(a, 8)  a21 == At(a, 9)  a22 == At(a, 10)  a23 == At(a, 11)
        a30 == At(a, 12)  a31 == At(a, 13)  a32 == At(a, 14)  a33 == At(a, 15)
        b00 == FSub(FMul(a00, a11), FMul(a01, a10))
        b01 == FSub(FMul(a00, a12), FMul(a02, a10))
        b02 == FSub(FMul(a00, a13), FMul(a03, a10))
        b03 == FSub(FMul(a01, a12), FMul(a02, a11))
        b04 == FSub(FMul(a01, a13), FMul(a03, a11))
        b05 == FSub(FMul(a02, a13), FMul(a03, a12))
        b06 == FSub(FMul(a20, a31), FMul(a21, a30))
        b07 == FSub(FMul(a20, a32), FMul(a22, a30))
        b08 == FSub(FMul(a20, a33), FMul(a23, a30))
        b09 == FSub(FMul(a21, a32), FMul(a22, a31))
        b10 == FSub(FMul(a21, a33), FMul(a23, a31))
        b11 == FSub(FMul(a22, a33), FMul(a23, a32))
        det == FAdd(FSub(FAdd(FAdd(FSub(FMul(b00, b11), FMul(b01, b10)), FMul(b02, b09)), FMul(b03, b08)), FMul(b04, b07)), FMul(b05, b06))
        rdet == FDiv(1, det)
        out == <<FMul(FAdd(FSub(FMul(a11, b11), FMul(a12, b10)), FMul(a13, b09)), rdet),
                 FMul(FSub(FSub(FMul(a02, b10), FMul(a01, b11)), FMul(a03, b09)), rdet),
                 FMul(FAdd(FSub(FMul(a31, b05), FMul(a32, b04)), FMul(a33, b03)), rdet),
                 FMul(FSub(FSub(FMul(a22, b04), FMul(a21, b05)), FMul(a23, b03)), rdet),
                 FMul(FSub(FSub(FMul(a12, b08), FMul(a10, b11)), FMul(a13, b07)), rdet),
                 FMul(FAdd(FSub(FMul(a00, b11), FMul(a02, b08)), FMul(a03, b07)), rdet),
                 FMul(FSub(FSub(FMul(a32, b02), FMul(a30, b05)), FMul(a33, b01)), rdet),
                 FMul(FAdd(FSub(FMul(a20, b05), FMul(a22, b02)), FMul(a23, b01)), rdet),
                 FMul(FAdd(FSub(FMul(a10, b10), FMul(a11, b08)), FMul(a13, b06)), rdet),
                 FMul(FSub(FSub(FMul(a01, b08), FMul(a00, b10)), FMul(a03, b06)), rdet),
                 FMul(FAdd(FSub(FMul(a30, b04), FMul(a31, b02)), FMul(a33, b00)), rdet),
                 FMul(FSub(FSub(FMul(a21, b02), FMul(a20, b04)), FMul(a23, b00)), rdet),
                 FMul(FSub(FSub(FMul(a11, b07), FMul(a10, b09)), FMul(a12, b06)), rdet),
                 FMul(FAdd(FSub(FMul(a00, b09), FMul(a01, b07)), FMul(a02, b06)), rdet),
                 FMul(FSub(FSub(FMul(a31, b01), FMul(a30, b03)), FMul(a32, b00)), rdet),
                 FMul(FAdd(FSub(FMul(a20, b03), FMul(a21, b01)), FMul(a22, b00)), rdet)>>
    IN IF Lt1e13(FAbs(det)) THEN [m |-> a, err |-> ErrSingularMatrix]
       ELSE [m |-> a, err |-> Nil]

MatrixInvert(m) ==
    IF Len(m) = 4 THEN Matrix2DInvert(m)
    ELSE IF Len(m) = 9 THEN Matrix3DInvert(m)
    ELSE Matrix4DInvert(m)

(***************************************************************************)
(* Vectors: component sequences of length 2, 3 or 4.  Add, Sub, Negate,    *)
(* Scale and Normalize are the same code in the three dimensions.          *)
(***************************************************************************)
VectorLength(v) ==
    LET r == IF Len(v) = 2 THEN Nrm2(v[1], v[2])
             ELSE IF Len(v) = 3 THEN Nrm2(Nrm2(v[1], v[2]), v[3])
             ELSE Nrm2(Nrm2(Nrm2(v[1], v[2]), v[3]), v[4])
    IN IF IsOverflow(r) THEN [val |-> 0, err |-> ErrOverflow]
       ELSE [val |-> r, err |-> Nil]

VectorNegate(v) == [i \in 1..Len(v) |-> FNeg(v[i])]

VectorAdd(v, w) ==
    LET new == [i \in 1..Len(v) |-> FAdd(v[i], w[i])]
    IN IF AreAnyOverflow(new) THEN [v |-> v, err |-> ErrOverflow]
       ELSE [v |-> new, err |-> Nil]

VectorSub(v, w) ==
    LET new == [i \in 1..Len(v) |-> FSub(v[i], w[i])]
    IN IF AreAnyOverflow(new) THEN [v |-> v, err |-> ErrOverflow]
       ELSE [v |-> new, err |-> Nil]

VectorNormalize(v) ==
    LET l == VectorLength(v)
        new == [i \in 1..Len(v) |-> FDiv(v[i], l.val)]
    IN IF l.err # Nil THEN [v |-> v, err |-> l.err]
       ELSE IF FEq(FAbs(l.val), 0) THEN [v |-> v, err |-> ErrDivideByZero]
       ELSE IF AreAnyOverflow(new) THEN [v |-> v, err |-> ErrOverflow]
       ELSE [v |-> new, err |-> Nil]

\* Scale that sets the components before it tests them for overflow
VectorScaleStoreFirst(v, f) ==
    LET new == [i \in 1..Len(v) |-> FMul(v[i], f)]
    IN IF IsNaN(f) THEN [v |-> v, err |-> ErrInvalidArgument]
       ELSE IF AreAnyOverflow(new) THEN [v |-> new, err |-> ErrOverflow]
       ELSE [v |-> new, err |-> Nil]

\* Scale without the test of the factor for NaN
VectorScaleAnyFactor(v, f) ==
    LET new == [i \in 1..Len(v) |-> FMul(v[i], f)]
    IN IF AreAnyOverflow(new) THEN [v |-> v, err |-> ErrOverflow]
       ELSE [v |-> new, err |-> Nil]

VectorScale(v, f) ==
    LET new == [i \in 1..Len(v) |-> FMul(v[i], f)]
    IN IF IsNaN(f) THEN [v |-> v, err |-> ErrInvalidArgument]
       ELSE IF AreAnyOverflow(new) THEN [v |-> v, err |-> ErrOverflow]
       ELSE [v |-> new, err |-> Nil]

\* blas64.Gemv(NoTrans, 1, m, v, 0, u): u[i] = sum over j of m[i][j] * v[j],
\* accumulated from 0 in column order
RECURSIVE RowDot(_, _, _, _)
RowDot(a, v, i, n) ==
    IF n = 0 THEN 0
    ELSE FAdd(RowDot(a, v, i, n - 1), FMul(At(a, i * Len(v) + n - 1), v[n]))

Gemv(a, v) == [i \in 1..Len(v) |-> RowDot(a, v, i - 1, Len(v))]

VectorMatrixTransform(v, a) ==
    LET new == Gemv(a, v)
    IN IF IsNearSingular1e12(a) THEN [v |-> v, err |-> ErrSingularMatrix]
       ELSE IF AreAnyOverflow(new) THEN [v |-> v, err |-> ErrOverflow]
       ELSE [v |-> new, err |-> Nil]

\* HomogeneousMatrixTransform3D on a Vector2D and HomogeneousMatrixTransform4D
\* on a Vector3D: the test before the division is uw != 0, which is also
\* true of NaN
VectorHomogeneousMatrixTransform(v, a) ==
    LET n == Len(v)
        u == VectorMatrixTransform(v \o <<1>>, a)
        uw == u.v[n + 1]
        new == [i \in 1..n |-> FDiv(u.v[i], uw)]
    IN IF u.err # Nil THEN [v |-> v, err |-> u.err]
       ELSE IF ~FEq(uw, 0) THEN [v |-> v, err |-> ErrDivideByZero]
       ELSE IF AreAnyOverflow(new) THEN [v |-> v, err |-> ErrOverflow]
       ELSE [v |-> new, err |-> Nil]

VectorCross(v, w) ==
    LET ax == v[1]  ay == v[2]  az == v[3]
        bx == w[1]  by == w[2]  bz == w[3]
        ux == FSub(FMul(ay, bz), FMul(az, by))
        uy == FSub(FMul(az, bx), FMul(ax, bz))
        uz == FSub(FMul(ax, by), FMul(ay, bx))
    IN IF AreAnyOverflow(<<ux, uy, uz>>) THEN [v |-> <<>>, err |-> ErrOverflow]
       ELSE [v |-> <<ux, uy, uz>>, err |-> Nil]

(***************************************************************************)
(* Predicates and products of vectors.  A predicate returns [ret, err]; a  *)
(* product returns [val, err].  Clone followed by a Normalize whose error  *)
(* is dropped is VectorNormalize(v).v.                                     *)
(***************************************************************************)
Signum(a) ==
    IF IsNaN(a) THEN [val |-> 0, err |-> ErrNaN]
    ELSE IF FLt(a, 0) \/ a = NInf THEN [val |-> 0 - 1, err |-> Nil]
    ELSE IF FLt(0, a) \/ a = PInf THEN [val |-> 1, err |-> Nil]
    ELSE [val |-> 0, err |-> Nil]

\* a[1]*b[1] + ... + a[n]*b[n], summed from the left
RECURSIVE DotSum(_, _, _)
DotSum(a, b, n) ==
    IF n = 1 THEN FMul(a[1], b[1])
    ELSE FAdd(DotSum(a, b, n - 1), FMul(a[n], b[n]))

\* Vector4D.Dot takes both operands from the receiver
VectorDot(v, w) ==
    LET b == IF Len(v) = 4 THEN v ELSE w
        r == DotSum(v, b, Len(v))
    IN IF AreAnyOverflow(<<r>>) THEN [val |-> 0, err |-> ErrOverflow]
       ELSE [val |-> r, err |-> Nil]

\* IsEqualTo with a strict comparison on every axis
VectorIsEqualToStrict(v, w, tol) ==
    IF IsInvalidTolerance(tol) THEN [ret |-> FALSE, err |-> ErrInvalidTol]
    ELSE [ret |-> \A i \in 1..Len(v) : FLt(FAbs(FSub(w[i], v[i])), tol),
          err |-> Nil]

\* IsEqualTo without the test of the tolerance
VectorIsEqualToAnyTol(v, w, tol) ==
    [ret |-> \A i \in 1..Len(v) : FLe(FAbs(FSub(w[i], v[i])), tol), err |-> Nil]

VectorIsEqualTo(v, w, tol) ==
    IF IsInvalidTolerance(tol) THEN [ret |-> FALSE, err |-> ErrInvalidTol]
    ELSE [ret |-> \A i \in 1..Len(v) : FLe(FAbs(FSub(w[i], v[i])), tol),
          err |-> Nil]

VectorIsZeroLength(v, tol) ==
    IF IsInvalidTolerance(tol) THEN [ret |-> FALSE, err |-> ErrInvalidTol]
    ELSE VectorIsEqualTo(v, [i \in 1..Len(v) |-> 0], tol)

\* In the predicates below the locals of the Go function (vv, ww, D, d)
\* are bound to their values once, in the order the code computes them,
\* and the result is read off the singleton set this builds.
VectorIsUnitLength(v, tol) ==
    IF IsInvalidTolerance(tol) THEN [ret |-> FALSE, err |-> ErrInvalidTol]
    ELSE CHOOSE r \in {VectorIsEqualTo(v, vv, tol) :
                           vv \in {VectorNormalize(v).v}} : TRUE

VectorIsParallelTo(v, w, tol) ==
    CHOOSE r \in UNION { UNION { UNION {
        { IF IsInvalidTolerance(tol) THEN [ret |-> FALSE, err |-> ErrInvalidTol]
          ELSE IF D.err # Nil THEN [ret |-> FALSE, err |-> D.err]
          ELSE IF d.err # Nil THEN [ret |-> FALSE, err |-> d.err]
          ELSE IF d.val = 0 THEN [ret |-> FALSE, err |-> Nil]
          ELSE IF flipped.err # Nil THEN [ret |-> FALSE, err |-> flipped.err]
          ELSE VectorIsEqualTo(flipped.v, ww, tol) :
            flipped \in {VectorScale(vv, d.val)} } :
            d \in {Signum(D.val)} } :
            D \in {VectorDot(vv, ww)} } :
            vv \in {VectorNormalize(v).v}, ww \in {VectorNormalize(w).v} } : TRUE

VectorIsPerpendicularTo(v, w, tol) ==
    CHOOSE r \in UNION {
        { IF IsInvalidTolerance(tol) THEN [ret |-> FALSE, err |-> ErrInvalidTol]
          ELSE IF d.err # Nil THEN [ret |-> FALSE, err |-> d.err]
          ELSE [ret |-> FLe(FAbs(d.val), tol), err |-> Nil] :
            d \in {VectorDot(vv, ww)} } :
            vv \in {VectorNormalize(v).v}, ww \in {VectorNormalize(w).v} } : TRUE

VectorIsCodirectionalTo(v, w, tol) ==
    IF IsInvalidTolerance(tol) THEN [ret |-> FALSE, err |-> ErrInvalidTol]
    ELSE CHOOSE r \in {VectorIsEqualTo(vv, ww, tol) :
                           vv \in {VectorNormalize(v).v},
                           ww \in {VectorNormalize(w).v}} : TRUE

\* for y >= 0
FTwiceAtan2Upper(y, x) ==
    IF y = 0 THEN (IF x < 0 THEN 4 ELSE 0)
    ELSE IF x = 0 THEN 2
    ELSE IF x > 0
    THEN (IF 1000 * y < 414 * x THEN 0 ELSE IF 1000 * y < 2414 * x THEN 1 ELSE 2)
    ELSE (IF 1000 * y < 414 * (0 - x) THEN 4
          ELSE IF 1000 * y < 2414 * (0 - x) THEN 3 ELSE 2)

\* 2 * math.Atan2(y, x) in quarter turns, rounded to the nearest: the
\* tangents of an eighth and of three eighths of a turn are 0.414 and 2.414
FTwiceAtan2(y, x) ==
    IF IsNaN(y) \/ IsNaN(x) THEN NaN
    ELSE IF y < 0 THEN 0 - FTwiceAtan2Upper(0 - y, x)
    ELSE FTwiceAtan2Upper(y, x)

\* 2 * math.Atan(x) in quarter turns: the angle of the point (1, x)
FTwiceAtan(x) == FTwiceAtan2(x, 1)

\* the last lines of Vector2D.AngleTo, from the lengths a >= b of the two
\* vectors and the length c of their difference
KahanAngle(a, b, c) ==
    CHOOSE r \in {FTwiceAtan(FSqrt(FDiv(FMul(t1, mu), FMul(t2, t3)))) :
                      mu \in {IF FLt(b, c) THEN FSub(b, FSub(a, c))
                               ELSE FSub(c, FSub(a, b))},
                      t1 \in {FSub(FSub(a, b), c)},
                      t2 \in {FAdd(a, FAdd(b, c))},
                      t3 \in {FAdd(FSub(a, c), b)}} : TRUE

\* Vector2D.AngleTo returns a nil error with the angle 0 when a Length
\* fails, and does not look at the error of Sub, which leaves u as it was
Vector2DAngleToOfLengths(v, w, lv, lw) ==
    IF lv.err # Nil THEN [val |-> 0, err |-> Nil]
    ELSE IF lw.err # Nil THEN [val |-> 0, err |-> Nil]
    ELSE CHOOSE r \in
            {IF c.err # Nil THEN [val |-> 0, err |-> Nil]
             ELSE [val |-> KahanAngle(FMax(lv.val, lw.val), FMin(lv.val, lw.val), c.val),
                   err |-> Nil] :
                c \in {VectorLength(VectorSub(v, w).v)}} : TRUE

Vector2DAngleTo(v, w) ==
    CHOOSE r \in {Vector2DAngleToOfLengths(v, w, lv, lw) :
                      lv \in {VectorLength(v)}, lw \in {VectorLength(w)}} : TRUE

\* Vector3D.AngleTo and Vector4D.AngleTo from the two scaled clones on: the
\* errors of Sub and of Add are not looked at, and each leaves its clone
\* of nVu as it was when it fails
VectorAngleToOfScaled(nVu, nUv) ==
    IF nVu.err # Nil THEN [val |-> 0, err |-> nVu.err]
    ELSE IF nUv.err # Nil THEN [val |-> 0, err |-> nUv.err]
    ELSE CHOOSE r \in
            {IF ay.err # Nil THEN [val |-> 0, err |-> ay.err]
             ELSE IF ax.err # Nil THEN [val |-> 0, err |-> ax.err]
             ELSE [val |-> FTwiceAtan2(ay.val, ax.val), err |-> Nil] :
                ay \in {VectorLength(VectorSub(nVu.v, nUv.v).v)},
                ax \in {VectorLength(VectorAdd(nVu.v, nUv.v).v)}} : TRUE

VectorAngleToOfLengths(v, u, lv, lu) ==
    IF lv.err # Nil THEN [val |-> 0, err |-> lv.err]
    ELSE IF lu.err # Nil THEN [val |-> 0, err |-> lu.err]
    ELSE CHOOSE r \in {VectorAngleToOfScaled(nVu, nUv) :
                           nVu \in {VectorScale(u, lv.val)},
                           nUv \in {VectorScale(v, lu.val)}} : TRUE

\* AngleTo of the vector type that holds v
VectorAngleTo(v, u) ==
    IF Len(v) = 2 THEN Vector2DAngleTo(v, u)
    ELSE CHOOSE r \in {VectorAngleToOfLengths(v, u, lv, lu) :
                           lv \in {VectorLength(v)}, lu \in {VectorLength(u)}} : TRUE

\* Point3D.IsEqualTo compares absolute differences; Point2D.IsEqualTo
\* compares the signed differences q - p
PointIsEqualTo(p, q, tol) ==
    IF IsInvalidTolerance(tol) THEN [ret |-> FALSE, err |-> ErrInvalidTol]
    ELSE IF Len(p) = 3
    THEN [ret |-> \A i \in 1..3 : FLe(FAbs(FSub(q[i], p[i])), tol), err |-> Nil]
    ELSE [ret |-> \A i \in 1..2 : FLe(FSub(q[i], p[i]), tol), err |-> Nil]

MatrixIsNearSingular(a, tol) ==
    IF IsInvalidTolerance(tol) THEN [ret |-> FALSE, err |-> ErrInvalidTol]
    ELSE [ret |-> FLe(FAbs(Determinant(a)), tol), err |-> Nil]

(***************************************************************************)
(* Coordinate systems.  A frame is [b0, b1, parent]; parent is the index   *)
(* of another frame, or 0 for the nil pointer.  A nil *Matrix3D is <<>>.   *)
(***************************************************************************)
NilMatrix == <<>>

\* the elements of &Matrix3D{}
ZeroMatrix3D == [k \in 1..9 |-> 0]

\* GetLocalOrientation with the b1 of the frame as the second row
GetLocalOrientationGivenB1(c) ==
    LET b0 == c.b0
        b2 == VectorCross(b0, c.b1)
        b1 == VectorCross(b0, b2.v)
        m == MatrixSetElements(ZeroMatrix3D, b0 \o c.b1 \o b2.v).m
    IN IF b2.err # Nil THEN [m |-> NilMatrix, err |-> b2.err]
       ELSE IF b1.err # Nil THEN [m |-> NilMatrix, err |-> b1.err]
       ELSE [m |-> m, err |-> Nil]

\* the error of SetElements is not looked at
GetLocalOrientation(c) ==
    LET b0 == c.b0
        b2 == VectorCross(b0, c.b1)
        b1 == VectorCross(b0, b2.v)
        m == MatrixSetElements(ZeroMatrix3D, b0 \o b1.v \o b2.v).m
    IN IF b2.err # Nil THEN [m |-> NilMatrix, err |-> b2.err]
       ELSE IF b1.err # Nil THEN [m |-> NilMatrix, err |-> b1.err]
       ELSE [m |-> m, err |-> Nil]

\* the loop of GetGlobalOrientation, returning what it has composed so far
\* when a step fails
RECURSIVE GlobalWalkPartial(_, _, _, _)
GlobalWalkPartial(fr, current, global, visited) ==
    IF current = 0 THEN [m |-> global, err |-> Nil, visited |-> visited]
    ELSE LET localOrient == GetLocalOrientation(fr[current])
             pre == MatrixPremultiply(global, localOrient.m)
             seen == Append(visited, current)
         IN IF localOrient.err # Nil
            THEN [m |-> global, err |-> localOrient.err, visited |-> seen]
            ELSE IF pre.err # Nil
            THEN [m |-> global, err |-> pre.err, visited |-> seen]
            ELSE GlobalWalkPartial(fr, fr[current].parent, pre.m, seen)

\* the loop of GetGlobalOrientation from the frame current on, with the
\* matrix composed so far and the frames whose local orientation was asked
RECURSIVE GlobalWalk(_, _, _, _)
GlobalWalk(fr, current, global, visited) ==
    IF current = 0 THEN [m |-> global, err |-> Nil, visited |-> visited]
    ELSE LET localOrient == GetLocalOrientation(fr[current])
             pre == MatrixPremultiply(global, localOrient.m)
             seen == Append(visited, current)
         IN IF localOrient.err # Nil
            THEN [m |-> NilMatrix, err |-> localOrient.err, visited |-> seen]
            ELSE IF pre.err # Nil
            THEN [m |-> NilMatrix, err |-> pre.err, visited |-> seen]
            ELSE GlobalWalk(fr, fr[current].parent, pre.m, seen)

\* GetGlobalOrientation that starts the walk at the parent
GetGlobalOrientationOfParent(fr, c) ==
    GlobalWalk(fr, fr[c].parent, MatrixSetElements(ZeroMatrix3D, Identity(3)).m, <<>>)

GetGlobalOrientation(fr, c) ==
    GlobalWalk(fr, c, MatrixSetElements(ZeroMatrix3D, Identity(3)).m, <<>>)

(***************************************************************************)
(* Transform builders.  An angle of the grid counts quarter turns, so that *)
(* its cosine and sine are grid values; math.Cos and math.Sin of NaN and   *)
(* of an infinity are NaN.  A builder returns the elements its receiver    *)
(* holds after the call and the error.                                     *)
(***************************************************************************)
FCos(angle) ==
    IF IsNaN(angle) \/ IsInf(angle) THEN NaN
    ELSE IF angle % 4 = 0 THEN 1 ELSE IF angle % 4 = 2 THEN 0 - 1 ELSE 0

FSin(angle) ==
    IF IsNaN(angle) \/ IsInf(angle) THEN NaN
    ELSE IF angle % 4 = 1 THEN 1 ELSE IF angle % 4 = 3 THEN 0 - 1 ELSE 0

\* the error of Normalize is dropped
RotationElements(u, c, s, c1) ==
    << FAdd(c, FMul(FMul(u[1], u[1]), c1)),
       FSub(FMul(FMul(u[1], u[2]), c1), FMul(u[3], s)),
       FAdd(FMul(FMul(u[1], u[3]), c1), FMul(u[2], s)),
       FAdd(FMul(FMul(u[1], u[2]), c1), FMul(u[3], s)),
       FAdd(c, FMul(FMul(u[2], u[2]), c1)),
       FSub(FMul(FMul(u[2], u[3]), c1), FMul(u[1], s)),
       FSub(FMul(FMul(u[1], u[3]), c1), FMul(u[2], s)),
       FAdd(FMul(FMul(u[2], u[3]), c1), FMul(u[1], s)),
       FAdd(c, FMul(FMul(u[3], u[3]), c1)) >>

\* the locals u, c, s and c1 are computed once and then read
rotation3DFromAxisAngle(axis, angle) ==
    CHOOSE e \in {RotationElements(u, c, s, FSub(1, c)) :
                      u \in {VectorNormalize(axis).v},
                      c \in {FCos(angle)},
                      s \in {FSin(angle)}} : TRUE

\* Transform2D and Transform3D drop the error of SetElements and return nil
Transform2DSet2DRotation(m, angle) ==
    LET c == FCos(angle)
        s == FSin(angle)
    IN [m |-> MatrixSetElements(m, <<c, FNeg(s), s, c>>).m, err |-> Nil]

Transform3DSet3DRotation(m, axis, angle) ==
    CHOOSE r \in {[m |-> MatrixSetElements(m, e).m, err |-> Nil] :
                      e \in {rotation3DFromAxisAngle(axis, angle)}} : TRUE

Transform3DSet3DXRotation(m, angle) ==
    LET c == FCos(angle)
        s == FSin(angle)
    IN [m |-> MatrixSetElements(m, <<1, 0, 0, 0, c, FNeg(s), 0, s, c>>).m, err |-> Nil]

Transform3DSet3DYRotation(m, angle) ==
    LET c == FCos(angle)
        s == FSin(angle)
    IN [m |-> MatrixSetElements(m, <<c, 0, s, 0, 1, 0, FNeg(s), 0, c>>).m, err |-> Nil]

Transform3DSet3DZRotation(m, angle) ==
    LET c == FCos(angle)
        s == FSin(angle)
    IN [m |-> MatrixSetElements(m, <<c, FNeg(s), 0, s, c, 0, 0, 0, 1>>).m, err |-> Nil]

HomogeneousTransform3DSet2DTranslation(m, v) ==
    MatrixSetElements(m, <<1, 0, v[1], 0, 1, v[2], 0, 0, 1>>)

HomogeneousTransform3DSet2DRotation(m, angle) ==
    LET c == FCos(angle)
        s == FSin(angle)
    IN MatrixSetElements(m, <<c, FNeg(s), 0, s, c, 0, 0, 0, 1>>)

HomogeneousTransform3DSet2DTranslationRotation(m, v, angle) ==
    LET c == FCos(angle)
        s == FSin(angle)
    IN MatrixSetElements(m, <<c, FNeg(s), v[1], s, c, v[2], 0, 0, 1>>)

\* SetElements is called on the matrix Adjoint() returns, a new object that
\* is dropped: the receiver keeps its elements and the error is returned
HomogeneousTransform4DSet3DTranslation(m, v) ==
    [m |-> m,
     err |-> MatrixSetElements(m, <<1, 0, 0, v[1], 0, 1, 0, v[2],
                                    0, 0, 1, v[3], 0, 0, 0, 1>>).err]

HomogeneousTransform4DSet3DRotation(m, axis, angle) ==
    CHOOSE r \in {MatrixSetElements(m, <<e[1], e[2], e[3], 0, e[4], e[5], e[6], 0,
                                         e[7], e[8], e[9], 0, 0, 0, 0, 1>>) :
                      e \in {rotation3DFromAxisAngle(axis, angle)}} : TRUE

HomogeneousTransform4DSet3DTranslationRotation(m, axis, angle, v) ==
    CHOOSE r \in {MatrixSetElements(m, <<e[1], e[2], e[3], v[1], e[4], e[5], e[6], v[2],
                                         e[7], e[8], e[9], v[3], 0, 0, 0, 1>>) :
                      e \in {rotation3DFromAxisAngle(axis, angle)}} : TRUE

\* l < 1e-14 for a value l of the grid
Lt1e14(l) == ~IsNaN(l) /\ l < 1

\* blasmatrix.Get3DRotMatrix returns a matrix and an error.  The matrix UU
\* of NewBlas64General has a Data slice of length 0; it is what every error
\* return hands back, and with a valid axis and angle blas64.Ger is called
\* on it and panics.
Get3DRotMatrix(axis, angle) ==
    LET l == VectorLength(axis)
    IN IF l.err # Nil THEN [m |-> <<>>, err |-> l.err]
       ELSE IF Lt1e14(FAbs(l.val)) THEN [m |-> <<>>, err |-> ErrVectorZeroLength]
       ELSE IF IsNaN(angle) THEN [m |-> <<>>, err |-> ErrNaN]
       ELSE IF IsInf(angle) THEN [m |-> <<>>, err |-> ErrInfinity]
       ELSE [m |-> <<>>, err |-> Panic]

(***************************************************************************)
(* Inputs of the calls                                                     *)
(***************************************************************************)
Dims == {2, 3, 4}

FiniteVals == {0, 1, 0 - 2, MaxFloat}
FloatVals == FiniteVals \cup {PInf, NInf, NaN}

Splat(d, c) == [i \in 1..d |-> c]
Axis(d, k, c) == [i \in 1..d |-> IF i = k THEN c ELSE 0]
Ramp(d) == [i \in 1..d |-> i]

VecOver(d, vals) ==
    {Splat(d, c) : c \in vals} \cup {Axis(d, k, c) : k \in {1, d}, c \in vals}
        \cup {Ramp(d)}

Diag(d, c) == [k \in 1..(d * d) |-> IF (k - 1) \div d = (k - 1) % d THEN c ELSE 0]
\* the identity with c added at row r, column q
Shear(d, r, q, c) == [k \in 1..(d * d) |->
    IF (k - 1) \div d = r /\ (k - 1) % d = q THEN Identity(d)[k] + c ELSE Identity(d)[k]]
\* c at the start of row 0 and at the end of row 1, 0 elsewhere
Corners(d, c) == [k \in 1..(d * d) |-> IF k = 1 \/ k = 2 * d THEN c ELSE 0]
\* the identity with its first element replaced by c
FirstIs(d, c) == [k \in 1..(d * d) |-> IF k = 1 THEN c ELSE Identity(d)[k]]

\* matrices a caller can build with SetElements
MatInputs(d) ==
    {Identity(d), Diag(d, 0), Diag(d, MaxFloat), Shear(d, 0, 1, 1),
     Shear(d, 1, 0, 1), Corners(d, MaxFloat)}

\* every element equal to c
Full(d, c) == [k \in 1..(d * d) |-> c]
\* the identity with the components of t down the last column of the rows
\* above the last
Translation(d, t) == [k \in 1..(d * d) |->
    IF (k - 1) % d = d - 1 /\ (k - 1) \div d < d - 1
    THEN t[(k - 1) \div d + 1] ELSE Identity(d)[k]]

\* matrices handed to MatrixTransform and to HomogeneousMatrixTransform
TransformArgs(d) == MatInputs(d) \cup {Full(d, MaxFloat)}
HomogeneousArgs(d) ==
    {Identity(d), Diag(d, 0), Diag(d, 2), Corners(d, MaxFloat),
     Translation(d, Ramp(d - 1)), Translation(d, Splat(d - 1, 0 - 2)),
     [Identity(d) EXCEPT ![d * d] = 0], [Identity(d) EXCEPT ![d * d] = 2]}

AddArgs(d) == {Identity(d), Diag(d, MaxFloat), FirstIs(d, NaN)}
MulArgs(d) == {Shear(d, 0, 1, 1), Shear(d, 1, 0, 1), Diag(d, 2), Diag(d, MaxFloat),
               FirstIs(d, NaN)}
ScaleArgs == {2, 0 - 1, PInf, NaN}
SetArgs(d) == {Identity(d), Shear(d, d - 1, 0, 0 - 1), FirstIs(d, NaN), FirstIs(d, PInf)}

\* the largest r whose square is a finite value: r^4 is not one
RootOfMax == CHOOSE r \in 1..MaxFloat : r * r <= MaxFloat /\ (r + 1) * (r + 1) > MaxFloat

\* pairs (b0, b1) a frame is built with: the parent's axes, a quarter turn
\* about z, a quarter turn about x, a pair whose cross product overflows,
\* and a pair whose orientation is finite while its square overflows
Bases ==
    {<<Axis(3, 1, 1), Axis(3, 2, 1)>>,
     <<Axis(3, 2, 1), Axis(3, 1, 0 - 1)>>,
     <<Axis(3, 1, 1), Axis(3, 3, 1)>>,
     <<Axis(3, 1, MaxFloat), Axis(3, 2, MaxFloat)>>,
     <<Axis(3, 1, RootOfMax), Axis(3, 2, 1)>>}

\* chains of n frames: each frame is the child of the next one, the last
\* frame is the root
FrameSets(n) ==
    {fr \in [1..n -> [b0 : {b[1] : b \in Bases}, b1 : {b[2] : b \in Bases}, parent : 0..n]] :
        \A i \in 1..n : /\ <<fr[i].b0, fr[i].b1>> \in Bases
                         /\ fr[i].parent = IF i < n THEN i + 1 ELSE 0}

\* the pairs (b0, b1) of the frames whose basis vectors the caller goes on
\* to change, and the chains of n such frames
MutableBases ==
    {<<Axis(3, 1, 1), Axis(3, 2, 1)>>,
     <<Axis(3, 2, 1), Axis(3, 1, 0 - 1)>>}

MutableFrameSets(n) ==
    {fr \in [1..n -> [b0 : {b[1] : b \in MutableBases},
                      b1 : {b[2] : b \in MutableBases}, parent : 0..n]] :
        \A i \in 1..n : /\ <<fr[i].b0, fr[i].b1>> \in MutableBases
                         /\ fr[i].parent = IF i < n THEN i + 1 ELSE 0}

(***************************************************************************)
(* Calls on a vector                                                       *)
(***************************************************************************)
VecCall(op, arg, r) ==
    /\ steps < MaxSteps
    /\ vec' = r.v
    /\ vecPre' = vec
    /\ vecOp' = op
    /\ vecArg' = arg
    /\ vecErr' = r.err
    /\ steps' = steps + 1
    /\ UNCHANGED <<dim, matVars, csVars, predVars, xfVars>>

VAdd == \E w \in VecOver(dim, FloatVals) : VecCall("Add", w, VectorAdd(vec, w))

VSub == \E w \in VecOver(dim, FloatVals) : VecCall("Sub", w, VectorSub(vec, w))

VNegate == VecCall("Negate", <<>>, [v |-> VectorNegate(vec), err |-> Nil])

VScale == \E f \in FloatVals : VecCall("Scale", <<f>>, VectorScale(vec, f))

VNormalize == VecCall("Normalize", <<>>, VectorNormalize(vec))

VMatrixTransform ==
    \E a \in TransformArgs(dim) :
        VecCall("MatrixTransform", a, VectorMatrixTransform(vec, a))

\* a Vector2D takes a Matrix3D, a Vector3D a Matrix4D
VHomogeneousMatrixTransform ==
    \E a \in HomogeneousArgs(dim + 1) :
        /\ dim \in {2, 3}
        /\ VecCall("HomogeneousMatrixTransform", a,
                   VectorHomogeneousMatrixTransform(vec, a))

InitRest ==
    /\ vecPre = <<>> /\ vecOp = "new" /\ vecArg = <<>> /\ vecErr = Nil
    /\ matPre = <<>> /\ matArg = <<>> /\ matOp = "new" /\ matErr = Nil
    /\ matPrevOp = "new"
    /\ matAlias = FALSE /\ matArgPost = <<>> /\ matRet = <<>>
    /\ csOp = "new" /\ csFrame = 0 /\ csRet = <<>> /\ csErr = Nil
    /\ csVisited = <<>>
    /\ predOp = "new" /\ predArg = <<>> /\ predTol = 0 /\ predRet = <<>>
    /\ predErr = Nil
    /\ xfOp = "new" /\ xfAxis = <<>> /\ xfAngle = 0 /\ xfPre = <<>> /\ xfRet = <<>>
    /\ xfErr = Nil
    /\ steps = 0

(***************************************************************************)
(* Calls on a matrix                                                       *)
(***************************************************************************)
MatCall(op, arg, r) ==
    /\ steps < MaxSteps
    /\ mat' = r.m
    /\ matPre' = mat
    /\ matArg' = arg
    /\ matOp' = op
    /\ matPrevOp' = matOp
    /\ matErr' = r.err
    /\ matAlias' = FALSE
    /\ matArgPost' = arg
    /\ matRet' = <<>>
    /\ steps' = steps + 1
    /\ UNCHANGED <<dim, vecVars, csVars, predVars, xfVars>>

\* a call whose argument is the receiver: one object, so the argument holds
\* after the call what the receiver holds
MatCallOnSelf(op, r) ==
    /\ steps < MaxSteps
    /\ mat' = r.m
    /\ matPre' = mat
    /\ matArg' = mat
    /\ matOp' = op
    /\ matPrevOp' = matOp
    /\ matErr' = r.err
    /\ matAlias' = TRUE
    /\ matArgPost' = r.m
    /\ matRet' = <<>>
    /\ steps' = steps + 1
    /\ UNCHANGED <<dim, vecVars, csVars, predVars, xfVars>>

\* a call of an accessor: i and j are the indices, x the value to store
MatAccess(op, i, j, x, r) ==
    /\ mat' = r.m
    /\ matPre' = mat
    /\ matArg' = <<i, j, x>>
    /\ matOp' = op
    /\ matPrevOp' = matOp
    /\ matErr' = r.err
    /\ matAlias' = FALSE
    /\ matArgPost' = <<i, j, x>>
    /\ matRet' = r.val
    /\ steps' = steps + 1
    /\ UNCHANGED <<dim, vecVars, csVars, predVars, xfVars>>

MSetElements == \E e \in SetArgs(dim) : MatCall("SetElements", e, MatrixSetElements(mat, e))

MScale == \E z \in ScaleArgs : MatCall("Scale", <<z>>, MatrixScale(mat, z))

MAdd == \E a \in AddArgs(dim) : MatCall("Add", a, MatrixAdd(mat, a))

MSub == \E a \in AddArgs(dim) : MatCall("Sub", a, MatrixSub(mat, a))

\* the argument is another matrix or the receiver itself
MPremultiply ==
    \E a \in MulArgs(dim) \cup {mat} : MatCall("Premultiply", a, MatrixPremultiply(mat, a))

MPostmultiply ==
    \E a \in MulArgs(dim) \cup {mat} : MatCall("Postmultiply", a, MatrixPostmultiply(mat, a))

MInvert == MatCall("Invert", <<>>, MatrixInvert(mat))

\* m.Premultiply(m): the product is computed in place, each element stored
\* in the receiver as soon as it is computed and read from there afterwards
MPremultiplySelfInPlace ==
    /\ steps < MaxSteps
    /\ \E r \in {SquareInPlace(mat, 0, dim)} :
            MatCallOnSelf("Premultiply", [m |-> r, err |-> Nil])

MPremultiplySelf ==
    /\ steps < MaxSteps
    /\ \E r \in {MatrixPremultiply(mat, mat)} : MatCallOnSelf("Premultiply", r)

MPostmultiplySelf ==
    /\ steps < MaxSteps
    /\ \E r \in {MatrixPostmultiply(mat, mat)} : MatCallOnSelf("Postmultiply", r)

\* the first and the last index of the matrix, and the two after it
IndexVals(d) == {0, d - 1, d, d + 1}

MElementAt ==
    /\ steps < MaxSteps
    /\ \E i \in IndexVals(dim), j \in IndexVals(dim) :
            \E r \in {MatrixElementAt(mat, dim, i, j)} :
                MatAccess("ElementAt", i, j, 0, r)

MSetElementAt ==
    /\ steps < MaxSteps
    /\ \E i \in IndexVals(dim), j \in IndexVals(dim), x \in {2} :
            \E r \in {MatrixSetElementAt(mat, dim, i, j, x)} :
                MatAccess("SetElementAt", i, j, x, r)

InitMat ==
    /\ dim \in Dims
    /\ mat \in MatInputs(dim)
    /\ vec = Splat(dim, 0)
    /\ frames = <<>>
    /\ InitRest

NextMat == MSetElements \/ MScale \/ MAdd \/ MSub \/ MPremultiply \/ MPostmultiply \/ MInvert

SpecMat == InitMat /\ [][NextMat]_vars

\* products of the receiver with another matrix and with itself
NextMatSelf == MPremultiply \/ MPostmultiply \/ MPremultiplySelf \/ MPostmultiplySelf

SpecMatSelf == InitMat /\ [][NextMatSelf]_vars

\* calls of the two accessors
NextMatAt == MElementAt \/ MSetElementAt

SpecMatAt == InitMat /\ [][NextMatAt]_vars

\* the standard product x . y of two d x d row-major matrices
RECURSIVE DotRC(_, _, _, _, _, _)
DotRC(x, y, d, i, j, n) ==
    IF n = 0 THEN 0
    ELSE FAdd(DotRC(x, y, d, i, j, n - 1),
              FMul(At(x, i * d + n - 1), At(y, (n - 1) * d + j)))

Product(x, y, d) == [k \in 1..(d * d) |-> DotRC(x, y, d, (k - 1) \div d, (k - 1) % d, d)]

AllFinite(s) == \A i \in DOMAIN s : s[i] \in Finite

\* C3: after a successful Premultiply(mat) the receiver is mat . m_old
\* (stated for finite operands)
C3_PremultiplyIsMatTimesOld ==
    (matOp = "Premultiply" /\ matErr = Nil /\ AllFinite(matPre) /\ AllFinite(matArg))
        => mat = Product(matArg, matPre, dim)

\* C4: after a successful Postmultiply(mat) the receiver is m_old . mat
\* (stated for finite operands)
C4_PostmultiplyIsOldTimesMat ==
    (matOp = "Postmultiply" /\ matErr = Nil /\ AllFinite(matPre) /\ AllFinite(matArg))
        => mat = Product(matPre, matArg, dim)

\* C26: Premultiply and Postmultiply compute every element from the values
\* the operands hold when the call starts, also when the argument is the
\* receiver: m.Premultiply(m) and m.Postmultiply(m) leave m equal to
\* m_old . m_old, and an argument that is another object is not modified.
C26_MultiplyReadsOperandsAtCallStart ==
    matOp \in {"Premultiply", "Postmultiply"} =>
        /\ (matAlias /\ matErr = Nil /\ AllFinite(matPre))
                => mat = Product(matPre, matPre, dim)
        /\ matAlias => matArgPost = mat
        /\ ~matAlias => matArgPost = matArg

\* m.Premultiply(m) has returned nil on a matrix whose square differs, in
\* an element off the first row, from the product computed in place
C26_Witness ==
    /\ matOp = "Premultiply"
    /\ matAlias
    /\ matErr = Nil
    /\ AllFinite(matPre)
    /\ mat # matPre
    /\ mat # SquareInPlace(matPre, 0, dim)

\* C27: ElementAt(i, j) with i < Rows and j < Cols returns the stored
\* element and a nil error, and SetElementAt(i, j, x) stores x there; with
\* i >= Rows or j >= Cols both return the matrix-index-out-of-range error
\* and neither reads nor writes an element.
C27_ElementAccessInRange ==
    matOp \in {"ElementAt", "SetElementAt"} =>
        IF matArg[1] < dim /\ matArg[2] < dim
        THEN /\ matErr = Nil
             /\ matOp = "ElementAt" =>
                    /\ matRet = At(matPre, matArg[1] * dim + matArg[2])
                    /\ mat = matPre
             /\ matOp = "SetElementAt" =>
                    mat = [matPre EXCEPT ![matArg[1] * dim + matArg[2] + 1] = matArg[3]]
        ELSE /\ matErr = ErrMatrixOutOfRange
             /\ mat = matPre

ArithOps == {"Scale", "Add", "Sub", "Premultiply", "Postmultiply", "Invert"}

\* C7: an arithmetic call on finite operands whose result has a non-finite
\* element fails with the overflow error and changes nothing; so a call
\* that returns no error has stored finite elements only, and a call that
\* returns the overflow error has stored nothing
C7_NonFiniteResultFails ==
    (matOp \in ArithOps /\ AllFinite(matPre) /\ AllFinite(matArg))
        => /\ matErr = Nil => AllFinite(mat)
           /\ matErr = ErrOverflow => mat = matPre

\* C8: a matrix mutator that returns an error leaves every element as it was
C8_ErrorLeavesMatrix == matErr # Nil => mat = matPre

C8_Witness ==
    /\ matErr = ErrOverflow /\ matOp \in {"Scale", "Add", "Premultiply"}
    /\ mat = matPre /\ mat # Identity(dim)

\* an integer matrix with determinant 1 or -1
Unimodular(a) == AllFinite(a) /\ Determinant(a) \in {1, 0 - 1}

\* C9: Invert on a clone of m, then Postmultiply(m), yields the identity
\* (stated for the matrices whose inverse is exact)
C9_InverseTimesOriginal ==
    (/\ matOp = "Postmultiply" /\ matErr = Nil /\ matPrevOp = "Invert"
     /\ Unimodular(matArg)
     /\ MatrixInvert(matArg).err = Nil /\ matPre = MatrixInvert(matArg).m)
        => mat = Identity(dim)

\* C10: Invert on a matrix that IsSingular reports singular returns the
\* singular-matrix error and leaves the elements unchanged
C10_SingularInvertFails ==
    (matOp = "Invert" /\ IsSingular(matPre))
        => (matErr = ErrSingularMatrix /\ mat = matPre)

(***************************************************************************)
(* Calls on a coordinate system                                            *)
(***************************************************************************)
CsCall(op, f, r) ==
    /\ steps < MaxSteps
    /\ csOp' = op
    /\ csFrame' = f
    /\ csRet' = r.m
    /\ csErr' = r.err
    /\ csVisited' = r.visited
    /\ steps' = steps + 1
    /\ UNCHANGED <<dim, vecVars, matVars, frames, predVars, xfVars>>

\* GetLocalOrientation that keeps the b1 it derived in the frame
CsGetLocalOrientationKeepsB1 ==
    /\ steps < MaxSteps
    /\ \E f \in DOMAIN frames :
            /\ csFrame' = f
            /\ csRet' = GetLocalOrientation(frames[f]).m
            /\ csErr' = GetLocalOrientation(frames[f]).err
            /\ csVisited' = <<f>>
            /\ frames' = [frames EXCEPT ![f].b1 = VectorCross(frames[f].b0,
                              VectorCross(frames[f].b0, @).v).v]
    /\ csOp' = "GetLocalOrientation"
    /\ steps' = steps + 1
    /\ UNCHANGED <<dim, vecVars, matVars, predVars, xfVars>>

CsGetLocalOrientation ==
    \E f \in DOMAIN frames :
        CsCall("GetLocalOrientation", f,
               [m |-> GetLocalOrientation(frames[f]).m,
                err |-> GetLocalOrientation(frames[f]).err, visited |-> <<f>>])

CsGetGlobalOrientation ==
    \E f \in DOMAIN frames :
        CsCall("GetGlobalOrientation", f, GetGlobalOrientation(frames, f))

InitCs ==
    /\ dim = 3
    /\ vec = Splat(dim, 0)
    /\ mat = Identity(dim)
    /\ \E n \in 1..MaxFrames : frames \in FrameSets(n)
    /\ InitRest

NextCs == CsGetLocalOrientation \/ CsGetGlobalOrientation

SpecCs == InitCs /\ [][NextCs]_vars

\* the product L_k . ... . L_0 of the local orientations from the root of
\* the chain of frame c down to c
RECURSIVE ChainProduct(_, _)
ChainProduct(fr, c) ==
    IF fr[c].parent = 0 THEN GetLocalOrientation(fr[c]).m
    ELSE Product(ChainProduct(fr, fr[c].parent), GetLocalOrientation(fr[c]).m, 3)

\* C1: GetGlobalOrientation returns L_k . ... . L_0, the root's local
\* orientation leftmost and the frame's own rightmost
C1_GlobalIsRootToThis ==
    (csOp = "GetGlobalOrientation" /\ csErr = Nil)
        => csRet = ChainProduct(frames, csFrame)

QuarterTurnZ == <<Axis(3, 2, 1), Axis(3, 1, 0 - 1)>>
HalfTurnZ == <<0 - 1, 0, 0, 0, 0 - 1, 0, 0, 0, 1>>

\* C2: a quarter turn about z under a root that is a quarter turn about z
\* has the half turn about z as its global orientation
C2_TwoQuarterTurns ==
    (/\ csOp = "GetGlobalOrientation"
     /\ frames[csFrame].parent # 0
     /\ <<frames[csFrame].b0, frames[csFrame].b1>> = QuarterTurnZ
     /\ frames[frames[csFrame].parent].parent = 0
     /\ <<frames[frames[csFrame].parent].b0, frames[frames[csFrame].parent].b1>>
            = QuarterTurnZ)
        => (csErr = Nil /\ csRet = HalfTurnZ)

(***************************************************************************)
(* Calls on a coordinate system whose basis vectors change between them.   *)
(* b0 and b1 are Vector3DReader values that hold the *Vector3D the frame   *)
(* was built with: the caller who holds the pointer can call a mutator of  *)
(* the vector, here Negate, at any time.                                   *)
(***************************************************************************)
CsMutateBasis ==
    /\ steps < MaxSteps
    /\ \E f \in DOMAIN frames, k \in {"b0", "b1"} :
            /\ frames' = [frames EXCEPT ![f][k] = VectorNegate(@)]
            /\ csFrame' = f
    /\ csOp' = "Negate"
    /\ csRet' = <<>>
    /\ csErr' = Nil
    /\ csVisited' = <<>>
    /\ steps' = steps + 1
    /\ UNCHANGED <<dim, vecVars, matVars, predVars, xfVars>>

InitCsMut ==
    /\ dim = 3
    /\ vec = Splat(dim, 0)
    /\ mat = Identity(dim)
    /\ \E n \in 1..(MaxFrames - 1) : frames \in MutableFrameSets(n)
    /\ InitRest

NextCsMut == CsMutateBasis \/ CsGetLocalOrientation \/ CsGetGlobalOrientation

SpecCsMut == InitCsMut /\ [][NextCsMut]_vars

RECURSIVE Ancestors(_, _)
Ancestors(fr, c) == IF c = 0 THEN <<>> ELSE <<c>> \o Ancestors(fr, fr[c].parent)

LocalErr(f) == GetLocalOrientation(frames[f]).err

\* C21: when GetGlobalOrientation returns an error the matrix is nil, the
\* frames visited are this frame and ancestors up to the one the error came
\* from (a failing GetLocalOrientation, or else the Premultiply of its
\* matrix), none further; and a failing frame on the chain makes it fail
C21_ErrorAbortsWalk ==
    csOp = "GetGlobalOrientation" =>
        LET chain == Ancestors(frames, csFrame)
            n == Len(csVisited)
        IN /\ (\E i \in 1..Len(chain) : LocalErr(chain[i]) # Nil) => csErr # Nil
           /\ csErr # Nil =>
                /\ csRet = NilMatrix
                /\ n >= 1 /\ n <= Len(chain)
                /\ csVisited = SubSeq(chain, 1, n)
                /\ \A i \in 1..(n - 1) : LocalErr(chain[i]) = Nil
                /\ LocalErr(chain[n]) # Nil => csErr = LocalErr(chain[n])
                /\ LocalErr(chain[n]) = Nil => csErr = ErrOverflow

\* the walk stopped at a failing frame that still has an ancestor
C21_Witness ==
    /\ csOp = "GetGlobalOrientation"
    /\ csErr # Nil
    /\ Len(csVisited) < Len(Ancestors(frames, csFrame))
    /\ LocalErr(csVisited[Len(csVisited)]) # Nil

\* the cross product in exact arithmetic
ExactCross(a, b) ==
    << a[2] * b[3] - a[3] * b[2],
       a[3] * b[1] - a[1] * b[3],
       a[1] * b[2] - a[2] * b[1] >>

Fits(v) == \A i \in DOMAIN v : v[i] \in Finite

\* C23: GetLocalOrientation returns the matrix of rows b0, b0 x (b0 x b1)
\* and b0 x b1 of the frame's basis, and returns the overflow error with a
\* nil matrix when one of the two cross products is not a finite value
C23_RowsOfLocalOrientation ==
    csOp = "GetLocalOrientation" =>
        LET b0 == frames[csFrame].b0
            b2 == ExactCross(b0, frames[csFrame].b1)
            b1 == ExactCross(b0, b2)
        IN IF Fits(b2) /\ Fits(b1)
           THEN csErr = Nil /\ csRet = b0 \o b1 \o b2
           ELSE csErr = ErrOverflow /\ csRet = NilMatrix

\* the orientation of a quarter turn about z was returned
C23_Witness ==
    /\ csOp = "GetLocalOrientation"
    /\ csErr = Nil
    /\ <<frames[csFrame].b0, frames[csFrame].b1>> = QuarterTurnZ
    /\ csRet = <<0, 1, 0, 1, 0, 0, 0, 0, 1>>

\* C24: GetGlobalOrientation asks the local orientation of this frame, then
\* of its parent, ..., once each and in that order, of all of them when it
\* returns no error; for a root frame it returns what GetLocalOrientation
\* returns
C24_WalkIsThisToRoot ==
    csOp = "GetGlobalOrientation" =>
        LET chain == Ancestors(frames, csFrame)
            n == Len(csVisited)
        IN /\ n <= Len(chain)
           /\ csVisited = SubSeq(chain, 1, n)
           /\ csErr = Nil => csVisited = chain
           /\ frames[csFrame].parent = 0 =>
                /\ csRet = GetLocalOrientation(frames[csFrame]).m
                /\ csErr = LocalErr(csFrame)

\* a walk over a frame and two ancestors returned no error
C24_Witness ==
    /\ csOp = "GetGlobalOrientation"
    /\ csErr = Nil
    /\ Len(csVisited) >= 3
    /\ frames[csVisited[Len(csVisited)]].parent = 0

\* the dot product in exact arithmetic
ExactDot(a, b) == a[1] * b[1] + a[2] * b[2] + a[3] * b[3]

\* C28: for orthogonal unit vectors b0 and b1, GetLocalOrientation returns
\* a matrix whose second row is b1 and whose determinant is +1
C28_ProperRotation ==
    (/\ csOp = "GetLocalOrientation"
     /\ ExactDot(frames[csFrame].b0, frames[csFrame].b0) = 1
     /\ ExactDot(frames[csFrame].b1, frames[csFrame].b1) = 1
     /\ ExactDot(frames[csFrame].b0, frames[csFrame].b1) = 0)
        => /\ csErr = Nil
           /\ SubSeq(csRet, 4, 6) = frames[csFrame].b1
           /\ Determinant(csRet) = 1

\* the steps of AngleTo that the call reaches and that fail: Vector2D's
\* two lengths, its Sub and the length of the difference
AngleTo2DStepFails(v, w) ==
    \/ VectorLength(v).err # Nil
    \/ /\ VectorLength(v).err = Nil
       /\ \/ VectorLength(w).err # Nil
          \/ /\ VectorLength(w).err = Nil
             /\ \E d \in {VectorSub(v, w)} :
                    d.err # Nil \/ VectorLength(d.v).err # Nil

\* Vector3D's and Vector4D's Sub, Add and the two lengths that follow them
AngleToOfScaledStepFails(nVu, nUv) ==
    \E Y \in {VectorSub(nVu, nUv)}, X \in {VectorAdd(nVu, nUv)} :
        \/ Y.err # Nil
        \/ X.err # Nil
        \/ VectorLength(Y.v).err # Nil
        \/ VectorLength(X.v).err # Nil

AngleToStepFails(v, u) ==
    IF Len(v) = 2 THEN AngleTo2DStepFails(v, u)
    ELSE \E lv \in {VectorLength(v)}, lu \in {VectorLength(u)} :
            \/ lv.err # Nil
            \/ lu.err # Nil
            \/ /\ lv.err = Nil
               /\ lu.err = Nil
               /\ \E nVu \in {VectorScale(u, lv.val)}, nUv \in {VectorScale(v, lu.val)} :
                      \/ nVu.err # Nil
                      \/ nUv.err # Nil
                      \/ /\ nVu.err = Nil
                         /\ nUv.err = Nil
                         /\ AngleToOfScaledStepFails(nVu.v, nUv.v)

\* C22: AngleTo of the three vector types returns a non-nil error whenever
\* one of its Length, Scale, Add or Sub steps fails; no call returns a nil
\* error together with an angle after a step has failed.
C22_AngleToReportsFailedStep ==
    (predOp = "AngleTo" /\ AngleToStepFails(vec, predArg)) => predErr # Nil

\* C29: for the zero vector of any dimension IsUnitLength(tol) does not
\* return true for a tolerance 0 <= tol < 1: a vector that cannot be
\* normalized is never reported as unit length.
C29_ZeroVectorIsNotUnitLength ==
    (/\ predOp = "IsUnitLength"
     /\ vec = Splat(dim, 0)
     /\ FLe(0, predTol)
     /\ FLt(predTol, 1)) => predRet # TRUE

\* C30: Point2D.IsEqualTo follows the rule of Point3D.IsEqualTo: for a
\* tolerance tol >= 0, p.IsEqualTo(q, tol) is true exactly when
\* |q.x - p.x| <= tol and |q.y - p.y| <= tol, and so it is symmetric in p
\* and q.
C30_Point2DIsEqualToIsAbsolute ==
    (/\ predOp = "PointIsEqualTo"
     /\ dim = 2
     /\ FLe(0, predTol)) =>
        /\ predRet = (\A i \in 1..2 : FLe(FAbs(FSub(predArg[i], vec[i])), predTol))
        /\ predRet = PointIsEqualTo(predArg, vec, predTol).ret

\* a vector whose components are all finite
InitVec ==
    /\ dim \in Dims
    /\ vec \in VecOver(dim, FiniteVals)
    /\ mat = Identity(dim)
    /\ frames = <<>>
    /\ InitRest

NextVec ==
    \/ VAdd \/ VSub \/ VNegate \/ VScale \/ VNormalize \/ VMatrixTransform
    \/ VHomogeneousMatrixTransform

SpecVec == InitVec /\ [][NextVec]_vars

\* C5: starting from finite components, no call stores NaN or an infinity
C5_NoNonFiniteStored == AllFinite(vec)

\* C6: a vector call that returns an error leaves every component as it was
C6_ErrorLeavesVector == vecErr # Nil => vec = vecPre

C6_Witness ==
    /\ vecOp \in {"Scale", "Add", "Normalize", "MatrixTransform"}
    /\ vecErr \in {ErrOverflow, ErrDivideByZero, ErrSingularMatrix}
    /\ vec = vecPre /\ vecPre # <<>>

\* C15: Scale(NaN) returns the invalid-argument error and leaves every
\* component as it was
C15_ScaleNaNRejected ==
    (vecOp = "Scale" /\ vecArg = <<NaN>>) =>
        (vecErr = ErrInvalidArgument /\ vec = vecPre)

C15_Witness ==
    /\ vecOp = "Scale" /\ vecArg = <<NaN>> /\ vecErr = ErrInvalidArgument
    /\ vec = vecPre /\ vec # Splat(dim, 0)

\* the sum of two finite vectors, when it is finite
SumOf(v, t) == [i \in 1..Len(v) |-> v[i] + t[i]]

\* C19: the homogeneous transform of v by the pure translation matrix of t
\* succeeds (the homogeneous coordinate is 1) and leaves v + t
C19_TranslationAddsT ==
    \A t \in {Ramp(dim), Splat(dim, 0 - 2)} :
        (/\ vecOp = "HomogeneousMatrixTransform"
         /\ vecArg = Translation(dim + 1, t)
         /\ AllFinite(vecPre) /\ AllFinite(SumOf(vecPre, t)))
            => (vecErr = Nil /\ vec = SumOf(vecPre, t))

\* the determinant of a d x d matrix of integers, expanded along row 0
RECURSIVE ExactDet(_, _)
ExactDet(a, d) ==
    IF d = 1 THEN a[1]
    ELSE LET Minor(q) == [k \in 1..((d - 1) * (d - 1)) |->
                 LET i == (k - 1) \div (d - 1) + 1
                     j == (k - 1) % (d - 1)
                     jj == IF j < q THEN j ELSE j + 1
                 IN a[i * d + jj + 1]]
             Term(q) == (IF q % 2 = 0 THEN 1 ELSE 0 - 1) * a[q + 1] * ExactDet(Minor(q), d - 1)
             Sum[q \in 0..d] == IF q = d THEN 0 ELSE Term(q) + Sum[q + 1]
         IN Sum[0]

\* the product m . v of integers
ExactTransform(a, v) ==
    LET d == Len(v)
        Row[i \in 1..d, n \in 0..d] ==
            IF n = 0 THEN 0 ELSE Row[i, n - 1] + a[(i - 1) * d + n] * v[n]
    IN [i \in 1..d |-> Row[i, d]]

\* C20: MatrixTransform of a matrix of determinant 0 returns the
\* singular-matrix error and leaves the vector; a call that succeeds has
\* replaced the vector by m . v
C20_SingularNeverApplied ==
    (vecOp = "MatrixTransform" /\ AllFinite(vecArg) /\ AllFinite(vecPre)) =>
        /\ ExactDet(vecArg, dim) = 0 => (vecErr = ErrSingularMatrix /\ vec = vecPre)
        /\ vecErr = Nil => vec = ExactTransform(vecArg, vecPre)

\* C20 for the matrices whose determinant Determinant() computes without
\* overflow
C20_WhenDeterminantIsExact ==
    (/\ vecOp = "MatrixTransform" /\ AllFinite(vecArg) /\ AllFinite(vecPre)
     /\ Determinant(vecArg) = ExactDet(vecArg, dim))
        => /\ ExactDet(vecArg, dim) = 0 => (vecErr = ErrSingularMatrix /\ vec = vecPre)
           /\ vecErr = Nil => vec = ExactTransform(vecArg, vecPre)

(***************************************************************************)
(* Calls of the predicates and of Dot on a vector, a point or a matrix.    *)
(* None of them changes its receiver.                                      *)
(***************************************************************************)
PredVecs(d) == VecOver(d, FiniteVals)

PredArgs(d) == VecOver(d, FiniteVals \cup {NaN})

TolVals == {0 - 1, NInf, 0, 1, 2, MaxFloat, PInf, NaN}

\* A call reads its receiver and arguments only and leaves every object as
\* it was, so a behaviour makes one call on the receiver it starts with.
PredCall(op, arg, tol, ret, err) ==
    /\ predOp' = op
    /\ predArg' = arg
    /\ predTol' = tol
    /\ predRet' = ret
    /\ predErr' = err
    /\ UNCHANGED <<dim, vecVars, matVars, csVars, xfVars, steps>>

PDot ==
    /\ predOp = "new"
    /\ \E w \in PredArgs(dim) :
            \E r \in {VectorDot(vec, w)} :
                PredCall("Dot", w, 0, r.val, r.err)

PAngleTo ==
    /\ predOp = "new"
    /\ \E w \in PredArgs(dim) :
            \E r \in {VectorAngleTo(vec, w)} :
                PredCall("AngleTo", w, 0, r.val, r.err)

PIsEqualTo ==
    /\ predOp = "new"
    /\ \E w \in PredArgs(dim), tol \in TolVals :
            \E r \in {VectorIsEqualTo(vec, w, tol)} :
                PredCall("IsEqualTo", w, tol, r.ret, r.err)

PIsZeroLength ==
    /\ predOp = "new"
    /\ \E tol \in TolVals :
            \E r \in {VectorIsZeroLength(vec, tol)} :
                PredCall("IsZeroLength", <<>>, tol, r.ret, r.err)

PIsUnitLength ==
    /\ predOp = "new"
    /\ \E tol \in TolVals :
            \E r \in {VectorIsUnitLength(vec, tol)} :
                PredCall("IsUnitLength", <<>>, tol, r.ret, r.err)

PIsParallelTo ==
    /\ predOp = "new"
    /\ \E w \in PredArgs(dim), tol \in TolVals :
            \E r \in {VectorIsParallelTo(vec, w, tol)} :
                PredCall("IsParallelTo", w, tol, r.ret, r.err)

PIsCodirectionalTo ==
    /\ predOp = "new"
    /\ \E w \in PredArgs(dim), tol \in TolVals :
            \E r \in {VectorIsCodirectionalTo(vec, w, tol)} :
                PredCall("IsCodirectionalTo", w, tol, r.ret, r.err)

PIsPerpendicularTo ==
    /\ predOp = "new"
    /\ \E w \in PredArgs(dim), tol \in TolVals :
            \E r \in {VectorIsPerpendicularTo(vec, w, tol)} :
                PredCall("IsPerpendicularTo", w, tol, r.ret, r.err)

\* points exist in 2 and 3 dimensions; their coordinates are finite
PPointIsEqualTo ==
    /\ predOp = "new"
    /\ \E q \in PredVecs(dim), tol \in TolVals :
            /\ dim \in {2, 3}
            /\ \E r \in {PointIsEqualTo(vec, q, tol)} :
                   PredCall("PointIsEqualTo", q, tol, r.ret, r.err)

PIsNearSingular ==
    /\ predOp = "new"
    /\ \E tol \in TolVals :
            \E r \in {MatrixIsNearSingular(mat, tol)} :
                PredCall("IsNearSingular", <<>>, tol, r.ret, r.err)

InitPred ==
    /\ dim \in Dims
    /\ vec \in PredVecs(dim)
    /\ mat \in {Identity(dim), Diag(dim, 0), Corners(dim, MaxFloat)}
    /\ frames = <<>>
    /\ InitRest

NextPred ==
    \/ PDot \/ PAngleTo \/ PIsEqualTo \/ PIsZeroLength \/ PIsUnitLength \/ PIsParallelTo
    \/ PIsCodirectionalTo \/ PIsPerpendicularTo \/ PPointIsEqualTo \/ PIsNearSingular

SpecPred == InitPred /\ [][NextPred]_vars

\* v is a non-zero finite multiple of the canonical axis k
OnAxis(v, k) == \E c \in Finite \ {0} : v = Axis(Len(v), k, c)

\* C11: for tol >= 0, IsParallelTo is true for two non-zero vectors on the
\* same axis, whether they point the same or the opposite way, and false for
\* two vectors on different axes (dot product exactly 0), in 2D, 3D and 4D
C11_ParallelBothWays ==
    (predOp = "IsParallelTo" /\ FLe(0, predTol)) =>
        \A j, k \in 1..dim :
            (OnAxis(vec, j) /\ OnAxis(predArg, k)) =>
                (predErr = Nil /\ predRet = (j = k))

\* C12: Dot returns the sum over the axes of v_i * w_i, or the overflow
\* error when that sum is infinite, and two different canonical axes are
\* perpendicular at every tol >= 0
C12_DotIsSumOfProducts ==
    /\ (predOp = "Dot" /\ AllFinite(vec) /\ AllFinite(predArg)) =>
          LET sum == DotSum(vec, predArg, dim)
          IN /\ IsInf(sum) => predErr = ErrOverflow
             /\ sum \in Finite => (predErr = Nil /\ predRet = sum)
    /\ (predOp = "IsPerpendicularTo" /\ FLe(0, predTol)) =>
          \A j, k \in 1..dim :
              (j # k /\ vec = Axis(dim, j, 1) /\ predArg = Axis(dim, k, 1)) =>
                  (predErr = Nil /\ predRet = TRUE)

\* the distance between two finite components is at most a tolerance >= 0
Within(a, b, tol) ==
    tol = PInf \/ (IF a >= b THEN a - b ELSE b - a) <= tol

\* C13: for tol >= 0, IsEqualTo is true exactly when on every axis the
\* absolute difference of the components is at most tol; with tol = 0,
\* exactly when the vectors are equal
C13_EqualPerAxis ==
    (predOp = "IsEqualTo" /\ FLe(0, predTol) /\ AllFinite(vec) /\ AllFinite(predArg)) =>
        /\ predErr = Nil
        /\ predRet = (\A i \in 1..dim : Within(vec[i], predArg[i], predTol))
        /\ predTol = 0 => predRet = (vec = predArg)

\* equal within tol on each axis although the Euclidean distance exceeds tol
C13_Witness ==
    /\ predOp = "IsEqualTo" /\ predTol = 1 /\ predErr = Nil /\ predRet = TRUE
    /\ vec = Splat(dim, 0) /\ predArg = Splat(dim, 1)

TolOps ==
    {"IsEqualTo", "IsZeroLength", "IsUnitLength", "IsParallelTo",
     "IsCodirectionalTo", "IsPerpendicularTo", "PointIsEqualTo", "IsNearSingular"}

\* C14: a predicate that takes a tolerance returns the invalid-tolerance
\* error (and false) for every tol < 0 and never for tol >= 0, and
\* IsZeroLength of the zero vector is true for every tol >= 0
C14_NegativeTolRejected ==
    predOp \in TolOps =>
        /\ FLt(predTol, 0) => (predErr = ErrInvalidTol /\ predRet = FALSE)
        /\ FLe(0, predTol) => predErr # ErrInvalidTol
        /\ (predOp = "IsZeroLength" /\ FLe(0, predTol) /\ vec = Splat(dim, 0)) =>
              (predErr = Nil /\ predRet = TRUE)

C14_Witness ==
    /\ predOp = "IsParallelTo" /\ FLt(predTol, 0) /\ predErr = ErrInvalidTol
    /\ OnAxis(vec, 1) /\ OnAxis(predArg, 1)

(***************************************************************************)
(* Calls of the transform builders.  mat is the matrix the transform       *)
(* wraps: a Transform2D wraps a Matrix2D, a Transform3D and a              *)
(* HomogeneousTransform3D a Matrix3D, a HomogeneousTransform4D a Matrix4D. *)
(***************************************************************************)
AngleVals == {0, 1, 2, 0 - 1, PInf, NInf, NaN}

AxisVecs == {Splat(3, 0), Axis(3, 1, 1), Axis(3, 2, 1), Axis(3, 3, 2)}

TranslationVecs(d) == {Splat(d, 0), Ramp(d), Axis(d, 1, PInf)}

XfCall(op, axis, angle, r, ret) ==
    /\ mat' = r.m
    /\ xfPre' = mat
    /\ xfOp' = op
    /\ xfAxis' = axis
    /\ xfAngle' = angle
    /\ xfRet' = ret
    /\ xfErr' = r.err
    /\ steps' = steps + 1
    /\ UNCHANGED <<dim, vecVars, matPre, matArg, matOp, matErr, matPrevOp,
                   matAlias, matArgPost, matRet, csVars, predVars>>

XTransform2DSet2DRotation ==
    /\ dim = 2
    /\ steps < MaxSteps
    /\ \E angle \in AngleVals :
            \E r \in {Transform2DSet2DRotation(mat, angle)} :
                XfCall("Transform2D.Set2DRotation", <<>>, angle, r, <<>>)

XTransform3DSet3DRotation ==
    /\ dim = 3
    /\ steps < MaxSteps
    /\ \E axis \in AxisVecs, angle \in AngleVals :
            \E r \in {Transform3DSet3DRotation(mat, axis, angle)} :
                XfCall("Transform3D.Set3DRotation", axis, angle, r, <<>>)

XTransform3DSet3DXRotation ==
    /\ dim = 3
    /\ steps < MaxSteps
    /\ \E angle \in AngleVals :
            \E r \in {Transform3DSet3DXRotation(mat, angle)} :
                XfCall("Transform3D.Set3DXRotation", <<>>, angle, r, <<>>)

XTransform3DSet3DYRotation ==
    /\ dim = 3
    /\ steps < MaxSteps
    /\ \E angle \in AngleVals :
            \E r \in {Transform3DSet3DYRotation(mat, angle)} :
                XfCall("Transform3D.Set3DYRotation", <<>>, angle, r, <<>>)

XTransform3DSet3DZRotation ==
    /\ dim = 3
    /\ steps < MaxSteps
    /\ \E angle \in AngleVals :
            \E r \in {Transform3DSet3DZRotation(mat, angle)} :
                XfCall("Transform3D.Set3DZRotation", <<>>, angle, r, <<>>)

XHomogeneousTransform3DSet2DTranslation ==
    /\ dim = 3
    /\ steps < MaxSteps
    /\ \E v \in TranslationVecs(2) :
            \E r \in {HomogeneousTransform3DSet2DTranslation(mat, v)} :
                XfCall("HomogeneousTransform3D.Set2DTranslation", v, 0, r, <<>>)

XHomogeneousTransform3DSet2DRotation ==
    /\ dim = 3
    /\ steps < MaxSteps
    /\ \E angle \in AngleVals :
            \E r \in {HomogeneousTransform3DSet2DRotation(mat, angle)} :
                XfCall("HomogeneousTransform3D.Set2DRotation", <<>>, angle, r, <<>>)

XHomogeneousTransform3DSet2DTranslationRotation ==
    /\ dim = 3
    /\ steps < MaxSteps
    /\ \E v \in TranslationVecs(2), angle \in AngleVals :
            \E r \in {HomogeneousTransform3DSet2DTranslationRotation(mat, v, angle)} :
                XfCall("HomogeneousTransform3D.Set2DTranslationRotation", v, angle, r, <<>>)

XHomogeneousTransform4DSet3DTranslation ==
    /\ dim = 4
    /\ steps < MaxSteps
    /\ \E v \in TranslationVecs(3) :
            \E r \in {HomogeneousTransform4DSet3DTranslation(mat, v)} :
                XfCall("HomogeneousTransform4D.Set3DTranslation", v, 0, r, <<>>)

XHomogeneousTransform4DSet3DRotation ==
    /\ dim = 4
    /\ steps < MaxSteps
    /\ \E axis \in AxisVecs, angle \in AngleVals :
            \E r \in {HomogeneousTransform4DSet3DRotation(mat, axis, angle)} :
                XfCall("HomogeneousTransform4D.Set3DRotation", axis, angle, r, <<>>)

XHomogeneousTransform4DSet3DTranslationRotation ==
    /\ dim = 4
    /\ steps < MaxSteps
    /\ \E axis \in AxisVecs, angle \in AngleVals, v \in TranslationVecs(3) :
            \E r \in {HomogeneousTransform4DSet3DTranslationRotation(mat, axis, angle, v)} :
                XfCall("HomogeneousTransform4D.Set3DTranslationRotation", axis, angle, r, <<>>)

\* a function of the package: it touches no transform, and what it returns
\* is recorded
XGet3DRotMatrix ==
    /\ steps < MaxSteps
    /\ \E axis \in AxisVecs, angle \in AngleVals :
        \E r \in {Get3DRotMatrix(axis, angle)} :
            XfCall("Get3DRotMatrix", axis, angle,
                   [m |-> mat, err |-> r.err], r.m)

\* a transform wraps a new matrix, &Matrix{}, or one set to the identity
InitXf ==
    /\ dim \in Dims
    /\ vec = Splat(dim, 0)
    /\ mat \in {Diag(dim, 0), Identity(dim)}
    /\ frames = <<>>
    /\ InitRest

NextXf ==
    \/ XTransform2DSet2DRotation
    \/ XTransform3DSet3DRotation
    \/ XTransform3DSet3DXRotation
    \/ XTransform3DSet3DYRotation
    \/ XTransform3DSet3DZRotation
    \/ XHomogeneousTransform3DSet2DTranslation
    \/ XHomogeneousTransform3DSet2DRotation
    \/ XHomogeneousTransform3DSet2DTranslationRotation
    \/ XHomogeneousTransform4DSet3DTranslation
    \/ XHomogeneousTransform4DSet3DRotation
    \/ XHomogeneousTransform4DSet3DTranslationRotation
    \/ XGet3DRotMatrix

SpecXf == InitXf /\ [][NextXf]_vars

AxisBuilders ==
    {"Transform3D.Set3DRotation", "HomogeneousTransform4D.Set3DRotation",
     "HomogeneousTransform4D.Set3DTranslationRotation", "Get3DRotMatrix"}

RotationBuilders ==
    AxisBuilders \cup
    {"Transform2D.Set2DRotation", "HomogeneousTransform3D.Set2DRotation",
     "HomogeneousTransform3D.Set2DTranslationRotation",
     "Transform3D.Set3DXRotation", "Transform3D.Set3DYRotation",
     "Transform3D.Set3DZRotation"}

\* C16: a 3D rotation builder given an axis of zero length (and a finite
\* angle) returns an error and populates no matrix
C16_ZeroAxisRejected ==
    (xfOp \in AxisBuilders /\ xfAxis = Splat(3, 0) /\ xfAngle \in Finite) =>
        (xfErr # Nil /\ mat = xfPre /\ xfRet = <<>>)

\* C17: a rotation builder given the angle NaN, +Inf or -Inf returns an
\* error and leaves the target matrix as it was
C17_BadAngleRejected ==
    (xfOp \in RotationBuilders /\ (IsNaN(xfAngle) \/ IsInf(xfAngle))) =>
        (xfErr # Nil /\ mat = xfPre /\ xfRet = <<>>)

\* C18: after Set3DTranslation(v), or Set2DTranslation(v), returns no error
\* the receiver's matrix is the identity with v down its last column
C18_TranslationInLastColumn ==
    (/\ xfOp \in {"HomogeneousTransform4D.Set3DTranslation",
                  "HomogeneousTransform3D.Set2DTranslation"}
     /\ xfErr = Nil)
        => mat = Translation(dim, xfAxis)

====
